---- MODULE Spec2Model ----
(***************************************************************************)
(* smart-helpbox: the index lifecycle (load_or_build_index,                *)
(* build_vector_index, rebuild_index) and the query pipeline               *)
(* (ask_question with the lookup functions of services.py).                *)
(*                                                                         *)
(* A Python str is a sequence of one-character strings; dict keys, which   *)
(* the code only names literally, are TLA+ strings.                        *)
(***************************************************************************)
EXTENDS Integers, Sequences, FiniteSets, TLC

(***************************************************************************)
(* Python str operations                                                   *)
(***************************************************************************)
UpperChars == <<"A","B","C","D","E","F","G","H","I","J","K","L","M",
                "N","O","P","Q","R","S","T","U","V","W","X","Y","Z">>
LowerChars == <<"a","b","c","d","e","f","g","h","i","j","k","l","m",
                "n","o","p","q","r","s","t","u","v","w","x","y","z">>

\* str.lower() on one character
LowerChar(c) ==
  IF \E i \in 1..Len(UpperChars) : UpperChars[i] = c
  THEN LowerChars[CHOOSE i \in 1..Len(UpperChars) : UpperChars[i] = c]
  ELSE c

\* str.lower()
Lower(s) == [i \in 1..Len(s) |-> LowerChar(s[i])]

\* s[n:]
DropFirst(s, n) == IF n >= Len(s) THEN <<>> ELSE SubSeq(s, n + 1, Len(s))

\* s[:-n]
DropLast(s, n) == IF n >= Len(s) THEN <<>> ELSE SubSeq(s, 1, Len(s) - n)

\* s.startswith(p)
StartsWith(s, p) == Len(p) <= Len(s) /\ SubSeq(s, 1, Len(p)) = p

\* s.endswith(p)
EndsWith(s, p) == Len(p) <= Len(s) /\ SubSeq(s, Len(s) - Len(p) + 1, Len(s)) = p

\* sub in s
Contains(sub, s) ==
  \E i \in 1..(Len(s) - Len(sub) + 1) : SubSeq(s, i, i + Len(sub) - 1) = sub

\* s.replace(old, new): every non-overlapping occurrence, left to right
RECURSIVE Replace(_, _, _)
Replace(s, old, new) ==
  IF Len(s) = 0 THEN <<>>
  ELSE IF Len(old) > 0 /\ StartsWith(s, old)
       THEN new \o Replace(DropFirst(s, Len(old)), old, new)
       ELSE <<s[1]>> \o Replace(Tail(s), old, new)

Digits == <<"0","1","2","3","4","5","6","7","8","9">>

\* str(n) for an int n >= 0
RECURSIVE DecStr(_)
DecStr(n) ==
  IF n < 10 THEN <<Digits[n + 1]>>
  ELSE DecStr(n \div 10) \o <<Digits[(n % 10) + 1]>>

Whitespace == {" ", "\n", "\t"}

RECURSIVE LStrip(_)
LStrip(s) == IF Len(s) > 0 /\ s[1] \in Whitespace THEN LStrip(Tail(s)) ELSE s

RECURSIVE RStrip(_)
RStrip(s) ==
  IF Len(s) > 0 /\ s[Len(s)] \in Whitespace THEN RStrip(DropLast(s, 1)) ELSE s

\* str.strip()
Strip(s) == RStrip(LStrip(s))

(***************************************************************************)
(* services.py: the lookup tables (dicts, in insertion order) and the five *)
(* lookup functions.  An Optional[int] result is a sequence of at most one  *)
(* integer: <<>> is the Python None.                                       *)
(***************************************************************************)

ORGANIZATIONS == <<
  [key  |-> <<"r","f","-","t","e","s","t">>, id |-> 1,
   name |-> <<"R","F","-","T","e","s","t"," ","O","r","g","a","n","i","z","a","t","i","o","n">>],
  [key  |-> <<"a","c","m","e","-","c","o","r","p">>, id |-> 2,
   name |-> <<"A","C","M","E"," ","C","o","r","p","o","r","a","t","i","o","n">>],
  [key  |-> <<"t","e","c","h","-","s","o","l","u","t","i","o","n","s">>, id |-> 3,
   name |-> <<"T","e","c","h"," ","S","o","l","u","t","i","o","n","s"," ","L","t","d">>] >>

ADVISERS == <<
  [key  |-> <<"j","o","h","n",".","d","o","e","@","e","x","a","m","p","l","e",".","c","o","m">>,
   id |-> 101, name |-> <<"J","o","h","n"," ","D","o","e">>],
  [key  |-> <<"j","a","n","e",".","s","m","i","t","h","@","e","x","a","m","p","l","e",".","c","o","m">>,
   id |-> 102, name |-> <<"J","a","n","e"," ","S","m","i","t","h">>],
  [key  |-> <<"b","o","b",".","w","i","l","s","o","n","@","e","x","a","m","p","l","e",".","c","o","m">>,
   id |-> 103, name |-> <<"B","o","b"," ","W","i","l","s","o","n">>],
  [key  |-> <<"b","o","b",".","w","i","l","s","o","n","2","@","e","x","a","m","p","l","e",".","c","o","m">>,
   id |-> 104, name |-> <<"B","o","b"," ","W","i","l","s","o","n">>] >>

CLIENTS == <<
  [key  |-> <<"a","l","i","c","e",".","j","o","h","n","s","o","n","@","e","x","a","m","p","l","e",".","c","o","m">>,
   id |-> 201, name |-> <<"A","l","i","c","e"," ","J","o","h","n","s","o","n">>],
  [key  |-> <<"c","h","a","r","l","i","e",".","b","r","o","w","n","@","e","x","a","m","p","l","e",".","c","o","m">>,
   id |-> 202, name |-> <<"C","h","a","r","l","i","e"," ","B","r","o","w","n">>],
  [key  |-> <<"d","i","a","n","a",".","r","o","s","s","@","e","x","a","m","p","l","e",".","c","o","m">>,
   id |-> 203, name |-> <<"D","i","a","n","a"," ","R","o","s","s">>] >>

\* the id of the first row of table (in dict order) that hit marks, or None
FirstId(table, hit) ==
  IF \E i \in 1..Len(table) : hit[i]
  THEN << table[CHOOSE i \in 1..Len(table) :
                  hit[i] /\ \A j \in 1..(i - 1) : ~hit[j]].id >>
  ELSE <<>>

get_organisation_id_by_name(org_name) ==
  LET q == Lower(org_name)
  IN  FirstId(ORGANIZATIONS,
              [i \in 1..Len(ORGANIZATIONS) |->
                 \/ Contains(ORGANIZATIONS[i].key, q)
                 \/ Contains(Lower(ORGANIZATIONS[i].name), q)])

get_adviser_id_by_name(adviser_name) ==
  LET q == Lower(adviser_name)
  IN  FirstId(ADVISERS,
              [i \in 1..Len(ADVISERS) |-> Contains(q, Lower(ADVISERS[i].name))])

\* get_adviser_id_by_email comparing the email as given, without .lower()
get_adviser_id_by_email_CaseSensitive(email) ==
  FirstId(ADVISERS, [i \in 1..Len(ADVISERS) |-> ADVISERS[i].key = email])

get_adviser_id_by_email(email) ==
  LET q == Lower(email)
  IN  FirstId(ADVISERS, [i \in 1..Len(ADVISERS) |-> ADVISERS[i].key = q])

get_client_id_by_name(client_name) ==
  LET q == Lower(client_name)
  IN  FirstId(CLIENTS,
              [i \in 1..Len(CLIENTS) |-> Contains(q, Lower(CLIENTS[i].name))])

get_client_id_by_email(email) ==
  LET q == Lower(email)
  IN  FirstId(CLIENTS, [i \in 1..Len(CLIENTS) |-> CLIENTS[i].key = q])

(***************************************************************************)
(* Python values, as json.loads produces them                              *)
(***************************************************************************)
PyNone      == [kind |-> "none", v |-> <<>>]
PyStr(s)    == [kind |-> "str",  v |-> s]
PyList(seq) == [kind |-> "list", v |-> seq]
PyDict(f)   == [kind |-> "dict", v |-> f]

\* bool(x) for the values above
Truthy(x) == x.kind # "none" /\ (x.kind = "dict" => DOMAIN x.v # {}) /\ (x.kind # "dict" => Len(x.v) > 0)

\* d.get(key, default) on a dict
Get(d, key, default) == IF key \in DOMAIN d.v THEN d.v[key] ELSE default

(***************************************************************************)
(* The strings of the model                                                *)
(***************************************************************************)
s_empty == <<>>
s_id == <<":","i","d">>
s_No_relevant ==
  <<"N","o"," ","r","e","l","e","v","a","n","t"," ","p","a","g","e","s"," ","w","e","r","e"," ","f","o","u","n","d"," ">> \o
  <<"f","o","r"," ","y","o","u","r"," ","r","e","q","u","e","s","t",".">>
s_Adviser == <<"A","d","v","i","s","e","r">>
s_Calendar == <<"C","a","l","e","n","d","a","r">>
s_Here_you_go == <<"H","e","r","e"," ","y","o","u"," ","g","o">>
s_advisers_id == <<"/","a","d","v","i","s","e","r","s","/",":","i","d">>
s_calendar == <<"/","c","a","l","e","n","d","a","r">>
s_clients_id_notes_id == <<"/","c","l","i","e","n","t","s","/",":","i","d","/","n","o","t","e","s","/",":","i","d">>
s_get_organisation_id_by_name == <<"g","e","t","_","o","r","g","a","n","i","s","a","t","i","o","n","_","i","d","_","b","y","_","n","a","m","e">>
s_get_adviser_id_by_name == <<"g","e","t","_","a","d","v","i","s","e","r","_","i","d","_","b","y","_","n","a","m","e">>
s_get_adviser_id_by_email == <<"g","e","t","_","a","d","v","i","s","e","r","_","i","d","_","b","y","_","e","m","a","i","l">>
s_get_client_id_by_name == <<"g","e","t","_","c","l","i","e","n","t","_","i","d","_","b","y","_","n","a","m","e">>
s_get_client_id_by_email == <<"g","e","t","_","c","l","i","e","n","t","_","i","d","_","b","y","_","e","m","a","i","l">>
s_get_weather == <<"g","e","t","_","w","e","a","t","h","e","r">>
s_john_doe_example_com == <<"j","o","h","n",".","d","o","e","@","e","x","a","m","p","l","e",".","c","o","m">>
s_John_Doe_Example_COM == <<"J","o","h","n",".","D","o","e","@","E","x","a","m","p","l","e",".","C","O","M">>
s_unknown_example_com == <<"u","n","k","n","o","w","n","@","e","x","a","m","p","l","e",".","c","o","m">>
s_bob == <<"b","o","b">>
s_acme_corp == <<"a","c","m","e","-","c","o","r","p">>
s_acme == <<"a","c","m","e">>
s_alice == <<"a","l","i","c","e">>
s_diana_ross_example_com == <<"d","i","a","n","a",".","r","o","s","s","@","e","x","a","m","p","l","e",".","c","o","m">>


(***************************************************************************)
(* The backend's reply text is a sequence of tokens: the characters the    *)
(* clean-up of ask_question looks at (whitespace, backticks, the letters   *)
(* of "json"), JSON's structural characters, null, and one token per JSON  *)
(* string literal.  StrLits gives the str a literal token denotes (the     *)
(* literals in value position), KeyLits the key that a key literal with    *)
(* its colon denotes.                                                      *)
(***************************************************************************)
StrLits ==
  "\"\"" :> s_empty @@
  "\"Adviser\"" :> s_Adviser @@
  "\"Calendar\"" :> s_Calendar @@
  "\"Here you go\"" :> s_Here_you_go @@
  "\"/advisers/:id\"" :> s_advisers_id @@
  "\"/calendar\"" :> s_calendar @@
  "\"/clients/:id/notes/:id\"" :> s_clients_id_notes_id @@
  "\"get_organisation_id_by_name\"" :> s_get_organisation_id_by_name @@
  "\"get_adviser_id_by_name\"" :> s_get_adviser_id_by_name @@
  "\"get_adviser_id_by_email\"" :> s_get_adviser_id_by_email @@
  "\"get_client_id_by_name\"" :> s_get_client_id_by_name @@
  "\"get_client_id_by_email\"" :> s_get_client_id_by_email @@
  "\"get_weather\"" :> s_get_weather @@
  "\"john.doe@example.com\"" :> s_john_doe_example_com @@
  "\"John.Doe@Example.COM\"" :> s_John_Doe_Example_COM @@
  "\"unknown@example.com\"" :> s_unknown_example_com @@
  "\"bob\"" :> s_bob @@
  "\"acme-corp\"" :> s_acme_corp @@
  "\"acme\"" :> s_acme @@
  "\"alice\"" :> s_alice @@
  "\"diana.ross@example.com\"" :> s_diana_ross_example_com

KeyLits ==
  "\"suggestions\":" :> "suggestions" @@
  "\"explanation\":" :> "explanation" @@
  "\"confidence\":" :> "confidence" @@
  "\"title\":" :> "title" @@
  "\"path\":" :> "path" @@
  "\"service\":" :> "service" @@
  "\"param\":" :> "param"

\* the literal token of a str / of a key
LitOf(s) == CHOOSE t \in DOMAIN StrLits : StrLits[t] = s
KeyLitOf(k) == CHOOSE t \in DOMAIN KeyLits : KeyLits[t] = k

\* text without its whitespace (json skips whitespace between tokens)
RECURSIVE SkipWs(_)
SkipWs(t) ==
  IF Len(t) = 0 THEN <<>>
  ELSE IF t[1] \in Whitespace THEN SkipWs(Tail(t))
       ELSE <<t[1]>> \o SkipWs(Tail(t))

ParseFail == [ok |-> FALSE, val |-> PyNone, rest |-> <<>>]
ParseOk(val, rest) == [ok |-> TRUE, val |-> val, rest |-> rest]

\* json's decoder on whitespace-free text: a value, then what follows it
RECURSIVE ParseValue(_)
RECURSIVE ParsePairs(_, _)
RECURSIVE ParseElements(_, _)
ParseValue(t) ==
  IF Len(t) = 0 THEN ParseFail
  ELSE IF t[1] = "{"
       THEN IF Len(t) >= 2 /\ t[2] = "}" THEN ParseOk(PyDict(<<>>), DropFirst(t, 2))
            ELSE ParsePairs(Tail(t), <<>>)
  ELSE IF t[1] = "["
       THEN IF Len(t) >= 2 /\ t[2] = "]" THEN ParseOk(PyList(<<>>), DropFirst(t, 2))
            ELSE ParseElements(Tail(t), <<>>)
  ELSE IF t[1] = "null" THEN ParseOk(PyNone, Tail(t))
  ELSE IF t[1] \in DOMAIN StrLits THEN ParseOk(PyStr(StrLits[t[1]]), Tail(t))
  ELSE ParseFail

\* key: value (, key: value)* }   -- a repeated key keeps its last value
ParsePairs(t, acc) ==
  IF Len(t) = 0 \/ t[1] \notin DOMAIN KeyLits THEN ParseFail
  ELSE LET r == ParseValue(Tail(t))
           k == KeyLits[t[1]]
           d == [x \in (DOMAIN acc) \cup {k} |-> IF x = k THEN r.val ELSE acc[x]]
       IN  IF ~r.ok \/ Len(r.rest) = 0 THEN ParseFail
           ELSE IF r.rest[1] = "}" THEN ParseOk(PyDict(d), Tail(r.rest))
           ELSE IF r.rest[1] = "," THEN ParsePairs(Tail(r.rest), d)
           ELSE ParseFail

\* value (, value)* ]
ParseElements(t, acc) ==
  LET r == ParseValue(t)
  IN  IF ~r.ok \/ Len(r.rest) = 0 THEN ParseFail
      ELSE IF r.rest[1] = "]" THEN ParseOk(PyList(Append(acc, r.val)), Tail(r.rest))
      ELSE IF r.rest[1] = "," THEN ParseElements(Tail(r.rest), Append(acc, r.val))
      ELSE ParseFail

\* json.loads(text): ok = FALSE is json.JSONDecodeError
JsonLoads(text) ==
  LET r == ParseValue(SkipWs(text))
  IN  IF r.ok /\ Len(r.rest) = 0 THEN r ELSE ParseFail

(***************************************************************************)
(* ask_question, lines 274-283: the clean-up of the reply text             *)
(***************************************************************************)
\* the backtick character (a token of its own; SANY's lexer does not take the
\* character itself inside a string)
Backtick  == "<backtick>"
FenceJson == <<Backtick, Backtick, Backtick, "j","s","o","n">>
Fence     == <<Backtick, Backtick, Backtick>>

\* Cleanup without the removal of code-fence markers
Cleanup_StripOnly(response_text) == Strip(response_text)


Cleanup(response_text) ==
  LET s0 == Strip(response_text)
      s1 == IF StartsWith(s0, FenceJson) THEN DropFirst(s0, Len(FenceJson))
            ELSE IF StartsWith(s0, Fence) THEN DropFirst(s0, Len(Fence))
            ELSE s0
      s2 == IF EndsWith(s1, Fence) THEN DropLast(s1, Len(Fence)) ELSE s1
  IN  Strip(s2)

(***************************************************************************)
(* ask_question, lines 296-322: the parameter-resolution loop.  A step     *)
(* that raises (AttributeError, KeyError, TypeError) gives ok = FALSE.     *)
(***************************************************************************)
Raised == [ok |-> FALSE, val |-> PyNone]
Returned(val) == [ok |-> TRUE, val |-> val]

KnownServices == {s_get_organisation_id_by_name, s_get_adviser_id_by_name,
                  s_get_adviser_id_by_email, s_get_client_id_by_name,
                  s_get_client_id_by_email}

\* LookupId with a default lookup in place of `id = None` (line 312)
LookupId_DefaultLookup(service, param) ==
  IF service = s_get_organisation_id_by_name THEN get_organisation_id_by_name(param)
  ELSE IF service = s_get_adviser_id_by_email THEN get_adviser_id_by_email(param)
  ELSE IF service = s_get_client_id_by_name THEN get_client_id_by_name(param)
  ELSE IF service = s_get_client_id_by_email THEN get_client_id_by_email(param)
  ELSE get_adviser_id_by_name(param)

\* lines 301-312: the dispatch on suggestion["service"]; param is a str
LookupId(service, param) ==
  IF service = s_get_organisation_id_by_name THEN get_organisation_id_by_name(param)
  ELSE IF service = s_get_adviser_id_by_name THEN get_adviser_id_by_name(param)
  ELSE IF service = s_get_adviser_id_by_email THEN get_adviser_id_by_email(param)
  ELSE IF service = s_get_client_id_by_name THEN get_client_id_by_name(param)
  ELSE IF service = s_get_client_id_by_email THEN get_client_id_by_email(param)
  ELSE <<>>

\* ResolveSuggestion with `or` in place of `and` in the test of line 298
ResolveSuggestion_Or(suggestion) ==
  IF suggestion.kind # "dict" THEN Raised
  ELSE
    LET service == Get(suggestion, "service", PyNone)
        param   == Get(suggestion, "param", PyNone)
    IN  IF ~(Truthy(service) \/ Truthy(param)) THEN Returned(suggestion)
        ELSE IF service.kind # "str" THEN Returned(suggestion)
        ELSE IF service.v \in KnownServices /\ param.kind # "str" THEN Raised
        ELSE
          LET id == IF param.kind = "str" THEN LookupId(service.v, param.v) ELSE <<>>
          IN  IF id = <<>> THEN Returned(suggestion)
              ELSE IF "path" \notin DOMAIN suggestion.v THEN Raised
              ELSE IF suggestion.v["path"].kind # "str" THEN Raised
              ELSE Returned(PyDict(
                     [suggestion.v EXCEPT !["path"] =
                        PyStr(Replace(suggestion.v["path"].v, s_id, DecStr(id[1])))]))

\* lines 298-320: one iteration of the loop, giving the suggestion appended
ResolveSuggestion(suggestion) ==
  IF suggestion.kind # "dict" THEN Raised               \* no .get on str, list, None
  ELSE
    LET service == Get(suggestion, "service", PyNone)
        param   == Get(suggestion, "param", PyNone)
    IN  IF ~(Truthy(service) /\ Truthy(param)) THEN Returned(suggestion)
        ELSE IF service.kind # "str" THEN Returned(suggestion)  \* equals no name: id = None
        ELSE IF service.v \in KnownServices /\ param.kind # "str" THEN Raised  \* no .lower()
        ELSE
          LET id == IF param.kind = "str" THEN LookupId(service.v, param.v) ELSE <<>>
          IN  IF id = <<>> THEN Returned(suggestion)
              ELSE IF "path" \notin DOMAIN suggestion.v THEN Raised         \* KeyError
              ELSE IF suggestion.v["path"].kind # "str" THEN Raised         \* no .replace
              ELSE Returned(PyDict(
                     [suggestion.v EXCEPT !["path"] =
                        PyStr(Replace(suggestion.v["path"].v, s_id, DecStr(id[1])))]))

\* what `for suggestion in x` iterates over; ok = FALSE when x is not iterable
IterItems(x) ==
  IF x.kind = "list" THEN Returned(x.v)
  ELSE IF x.kind = "str" THEN Returned([i \in 1..Len(x.v) |-> PyStr(<<x.v[i]>>)])
  ELSE IF x.kind = "dict" /\ DOMAIN x.v = {} THEN Returned(<<>>)
  ELSE Raised     \* None; a non-empty dict yields its str keys, and .get on a str raises

\* ProcessSuggestions with insert(0, ...) in place of append (line 320)
RECURSIVE ProcessSuggestions_Prepend(_, _)
ProcessSuggestions_Prepend(items, processed_suggestions) ==
  IF Len(items) = 0 THEN Returned(processed_suggestions)
  ELSE LET r == ResolveSuggestion(items[1])
       IN  IF ~r.ok THEN Raised
           ELSE ProcessSuggestions_Prepend(Tail(items), <<r.val>> \o processed_suggestions)

\* lines 296-320: processed_suggestions, or the exception
RECURSIVE ProcessSuggestions(_, _)
ProcessSuggestions(items, processed_suggestions) ==
  IF Len(items) = 0 THEN Returned(processed_suggestions)
  ELSE LET r == ResolveSuggestion(items[1])
       IN  IF ~r.ok THEN Raised
           ELSE ProcessSuggestions(Tail(items), Append(processed_suggestions, r.val))

\* lines 274-323 and the handler of lines 325-327: the HTTP status and body
\* that ask_question gives for the reply text
HttpError == [status |-> 500, body |-> PyNone]
HttpOk(body) == [status |-> 200, body |-> body]

Normalise(response_text) ==
  LET parsed == JsonLoads(Cleanup(response_text))
  IN  IF ~parsed.ok THEN HttpError                         \* line 293
      ELSE IF parsed.val.kind # "dict" THEN HttpError      \* no .get: line 327
      ELSE
        LET response_data == parsed.val
            items == IterItems(Get(response_data, "suggestions", PyList(<<>>)))
            out   == IF items.ok THEN ProcessSuggestions(items.val, <<>>) ELSE Raised
        IN  IF ~out.ok THEN HttpError                      \* line 327
            ELSE HttpOk(PyDict(
                   [k \in (DOMAIN response_data.v) \cup {"suggestions"} |->
                      IF k = "suggestions" THEN PyList(out.val)
                      ELSE response_data.v[k]]))

\* lines 334-339, class Suggestion: title and path are str, service and
\* param are Optional[str] (description, a str like title, is not carried
\* by the suggestions of SuggestionPool)
IsSuggestion(x) ==
  /\ x.kind = "dict"
  /\ {"title", "path"} \subseteq DOMAIN x.v
  /\ x.v["title"].kind = "str"
  /\ x.v["path"].kind = "str"
  /\ Get(x, "service", PyNone).kind \in {"none", "str"}
  /\ Get(x, "param", PyNone).kind \in {"none", "str"}

\* line 171: the response for an empty retrieval
NoNodesResponse ==
  HttpOk(PyDict([llm_response |->
    PyDict([suggestions |-> PyList(<<>>), explanation |-> PyStr(s_No_relevant)])]))

(***************************************************************************)
(* The backend's replies the model draws from.  A reply text is what a     *)
(* generation backend writes for a value: its JSON rendering, possibly cut *)
(* short (maxOutputTokens), possibly wrapped in a markdown code fence.      *)
(***************************************************************************)
MaxSugs == 2      \* suggestions in one reply
MaxCut  == 2      \* tokens a truncated reply misses at its end

KeyOrder == <<"suggestions", "title", "path", "service", "param",
              "explanation", "confidence">>

\* the JSON text of a value, with a space after each colon and comma
RECURSIVE Render(_)
RECURSIVE RenderPairs(_, _, _)
RECURSIVE RenderElements(_, _)
Render(x) ==
  IF x.kind = "none" THEN <<"null">>
  ELSE IF x.kind = "str" THEN <<LitOf(x.v)>>
  ELSE IF x.kind = "list" THEN <<"[">> \o RenderElements(x.v, 1) \o <<"]">>
  ELSE <<"{">> \o RenderPairs(x.v, 1, TRUE) \o <<"}">>

RenderPairs(d, i, first) ==
  IF i > Len(KeyOrder) THEN <<>>
  ELSE IF KeyOrder[i] \notin DOMAIN d THEN RenderPairs(d, i + 1, first)
  ELSE (IF first THEN <<>> ELSE <<",", " ">>)
       \o <<KeyLitOf(KeyOrder[i]), " ">> \o Render(d[KeyOrder[i]])
       \o RenderPairs(d, i + 1, FALSE)

RenderElements(s, i) ==
  IF i > Len(s) THEN <<>>
  ELSE (IF i = 1 THEN <<>> ELSE <<",", " ">>) \o Render(s[i]) \o RenderElements(s, i + 1)

Sug(title, path, service, param) ==
  PyDict([title |-> PyStr(title), path |-> PyStr(path),
          service |-> service, param |-> param])

\* suggestions a backend may write: lookups that hit and that miss, an unknown
\* service, absent, null and empty service or param, a missing path
SuggestionPool == <<
  Sug(s_Adviser, s_advisers_id, PyStr(s_get_adviser_id_by_email), PyStr(s_john_doe_example_com)),
  Sug(s_Adviser, s_advisers_id, PyStr(s_get_adviser_id_by_email), PyStr(s_John_Doe_Example_COM)),
  Sug(s_Adviser, s_advisers_id, PyStr(s_get_adviser_id_by_email), PyStr(s_unknown_example_com)),
  Sug(s_Adviser, s_advisers_id, PyStr(s_get_adviser_id_by_name), PyStr(s_bob)),
  Sug(s_Adviser, s_advisers_id, PyStr(s_get_weather), PyStr(s_bob)),
  Sug(s_Adviser, s_advisers_id, PyStr(s_get_organisation_id_by_name), PyStr(s_acme_corp)),
  Sug(s_Adviser, s_advisers_id, PyStr(s_get_organisation_id_by_name), PyStr(s_acme)),
  Sug(s_Adviser, s_clients_id_notes_id, PyStr(s_get_client_id_by_name), PyStr(s_alice)),
  Sug(s_Adviser, s_clients_id_notes_id, PyStr(s_get_client_id_by_email), PyStr(s_diana_ross_example_com)),
  Sug(s_Calendar, s_calendar, PyStr(s_get_client_id_by_email), PyStr(s_diana_ross_example_com)),
  Sug(s_Adviser, s_advisers_id, PyNone, PyStr(s_bob)),
  Sug(s_Adviser, s_advisers_id, PyStr(s_empty), PyStr(s_bob)),
  Sug(s_Adviser, s_advisers_id, PyStr(s_get_adviser_id_by_name), PyStr(s_empty)),
  PyDict([title |-> PyStr(s_Calendar), path |-> PyStr(s_calendar)]),
  PyDict([title |-> PyStr(s_Adviser), path |-> PyStr(s_advisers_id),
          service |-> PyStr(s_get_adviser_id_by_name)]),
  PyDict([title |-> PyStr(s_Adviser),
          service |-> PyStr(s_get_adviser_id_by_name), param |-> PyStr(s_bob)]),
  PyDict([title |-> PyStr(s_Adviser),
          service |-> PyStr(s_get_weather), param |-> PyStr(s_bob)]) >>

SuggestionLists ==
  UNION { { [i \in 1..n |-> SuggestionPool[f[i]]] : f \in [1..n -> 1..Len(SuggestionPool)] }
          : n \in 0..MaxSugs }

\* the values a reply text is written for: the expected object with every
\* list of suggestions, the object without its explanation or with one more
\* key, and values of another shape
ReplyValues ==
  { PyDict([suggestions |-> PyList(l), explanation |-> PyStr(s_Here_you_go)]) :
      l \in SuggestionLists }
  \cup UNION { { PyDict([suggestions |-> PyList(l)]),
                 PyDict([suggestions |-> PyList(l), explanation |-> PyStr(s_Here_you_go),
                         confidence |-> PyStr(s_acme)]) } :
               l \in {x \in SuggestionLists : Len(x) <= 1} }
  \cup { PyDict([explanation |-> PyStr(s_Here_you_go)]),
         PyDict(<<>>),
         PyList(<<>>),
         PyStr(s_Here_you_go),
         PyNone,
         PyDict([suggestions |-> PyNone, explanation |-> PyStr(s_Here_you_go)]),
         PyDict([suggestions |-> PyStr(s_empty), explanation |-> PyStr(s_Here_you_go)]),
         PyDict([suggestions |-> PyStr(s_bob), explanation |-> PyStr(s_Here_you_go)]),
         PyDict([suggestions |-> PyList(<<PyStr(s_bob)>>), explanation |-> PyStr(s_Here_you_go)]),
         PyDict([suggestions |-> PyDict(<<>>), explanation |-> PyStr(s_Here_you_go)]) }

FenceStyles == {"plain", "json_fence", "bare_fence", "open_fence"}

\* the text inside a code fence, or alone with whitespace around it
Wrap(style, text) ==
  IF style = "json_fence" THEN FenceJson \o <<"\n">> \o text \o <<"\n">> \o Fence \o <<"\n">>
  ELSE IF style = "bare_fence" THEN <<" ">> \o Fence \o <<"\n">> \o text \o <<"\n">> \o Fence
  ELSE IF style = "open_fence" THEN FenceJson \o <<"\n">> \o text
  ELSE <<"\n">> \o text \o <<" ">>

\* whole texts in every style; texts cut short, alone and in a fence
ReplyTexts ==
  { Wrap(style, Render(x)) : style \in FenceStyles, x \in ReplyValues }
  \cup { Wrap(style, DropLast(Render(x), cut)) :
           style \in {"plain", "json_fence"}, x \in ReplyValues, cut \in 1..MaxCut }

(***************************************************************************)
(* The route catalog (routes.json) and the documents build_vector_index    *)
(* makes of it.  A catalog file is one of CatalogFiles, by its position.   *)
(***************************************************************************)
CatalogFiles == <<
  \* []
  [json |-> "ok", routes |-> <<>>],
  \* a route with the required fields only, a route with every field
  [json |-> "ok", routes |-> <<
     [title |-> "View Calendar", description |-> "Shows events", url |-> "/calendar"],
     [title |-> "Adviser", description |-> "Adviser summary", url |-> "/advisers/:id",
      tags |-> <<"adviser", "people">>, service |-> "get_adviser_id_by_email",
      hasAccess |-> <<"admin">>] >>],
  \* a route without its url
  [json |-> "ok", routes |-> <<
     [title |-> "View Calendar", description |-> "Shows events", url |-> "/calendar"],
     [title |-> "Adviser", description |-> "Adviser summary"] >>],
  \* not JSON
  [json |-> "malformed", routes |-> <<>>] >>

Catalogs == 1..Len(CatalogFiles)

\* calculate_file_hash: SHA-256 of the file's bytes, taken to be free of
\* collisions: the digest of file c is the string "sha256:<c>"
calculate_file_hash(c) == "sha256:" \o ToString(c)

\* ', '.join(tags)
RECURSIVE JoinTags(_)
JoinTags(tags) ==
  IF Len(tags) = 0 THEN ""
  ELSE IF Len(tags) = 1 THEN tags[1]
  ELSE tags[1] \o ", " \o JoinTags(Tail(tags))

RequiredFields == {"url", "title", "description"}

\* r.get(key, default) on a route
RouteGet(r, key, default) == IF key \in DOMAIN r THEN r[key] ELSE default

\* lines 79-89: the Document of one route
Document(r) ==
  [text |-> r.title \o ". " \o r.description \o " Tags: "
              \o JoinTags(RouteGet(r, "tags", <<>>)),
   metadata |-> [url |-> r.url, title |-> r.title, description |-> r.description,
                 tags |-> RouteGet(r, "tags", <<>>),
                 service |-> IF "service" \in DOMAIN r THEN <<r.service>> ELSE <<>>,
                 hasAccess |-> RouteGet(r, "hasAccess", <<>>)]]

\* lines 75-91: json.load or a route's missing key raises
CatalogLoads(c) ==
  /\ CatalogFiles[c].json = "ok"
  /\ \A i \in 1..Len(CatalogFiles[c].routes) :
       RequiredFields \subseteq DOMAIN CatalogFiles[c].routes[i]

\* lines 78-91: the documents of a catalog that loads
Documents(c) ==
  [i \in 1..Len(CatalogFiles[c].routes) |-> Document(CatalogFiles[c].routes[i])]

(***************************************************************************)
(* State                                                                   *)
(*                                                                         *)
(* Processes: "main" runs the module's start-up code (lines 149-151) and   *)
(* then serves; each of Rebuilders is a worker thread in rebuild_index;    *)
(* each of Askers is a request in ask_question.  The catalog file is       *)
(* edited from outside at any time, and the server process may be killed   *)
(* and started again, which keeps the files and loses the memory.          *)
(***************************************************************************)
Rebuilders == {"r1", "r2"}
Askers     == {"a1"}
Builders   == {"main"} \cup Rebuilders

VARIABLES
  catalog,       \* routes.json: the position of its content in CatalogFiles
  store,         \* the vector_store directory
  hashfile,      \* vector_store_hash.txt: <<>> when absent, else <<digest>>
  index,         \* the global index
  retriever,     \* the global retriever
  pc,            \* where each of Builders is in its code
  callsite,      \* the line build_vector_index was called from
  route_data,    \* build_vector_index: the catalog content read at line 76
  new_index,     \* the index being built or loaded, then returned; in
                 \* rebuild_index, the index object loaded at line 158
  current_hash,  \* the local current_hash (lines 115, 136)
  result,        \* the HTTP status rebuild_index ends with
  apc,           \* where each of Askers is in ask_question
  nodes,         \* ask_question: the retrieval's result
  reply,         \* ask_question: the backend's answer
  resp           \* ask_question: its HTTP status and body

lifeVars == <<catalog, store, hashfile, index, retriever, pc, callsite,
              route_data, new_index, current_hash, result>>
askVars  == <<apc, nodes, reply, resp>>
vars     == <<catalog, store, hashfile, index, retriever, pc, callsite,
              route_data, new_index, current_hash, result,
              apc, nodes, reply, resp>>

TopK == 3

\* an index: the catalog content it was built from and its documents so far
Index(src, docs) == [src |-> src, docs |-> docs]
NoIndex     == Index(0, <<>>)
NoRetriever == [index |-> NoIndex, similarity_top_k |-> 0]
NoHash      == ""

\* index.as_retriever(similarity_top_k=3)
AsRetriever(idx) == [index |-> idx, similarity_top_k |-> TopK]

EmptyStore      == [state |-> "empty",   index |-> NoIndex]
CorruptStore    == [state |-> "corrupt", index |-> NoIndex]
Persisted(idx)  == [state |-> "ok",      index |-> idx]

NoNodes == [index |-> NoIndex, hits |-> {}]
NoReply == [kind |-> "none", status |-> 0, envelope |-> "none", text |-> <<>>]
NoResp  == [status |-> 0, body |-> PyNone]

\* the memory of a server process that has just started
FreshMemory ==
  /\ index = NoIndex
  /\ retriever = NoRetriever
  /\ pc = [p \in Builders |-> IF p = "main" THEN "m_start" ELSE "idle"]
  /\ callsite = [p \in Builders |-> 0]
  /\ route_data = [p \in Builders |-> 0]
  /\ new_index = [p \in Builders |-> NoIndex]
  /\ current_hash = [p \in Builders |-> NoHash]
  /\ result = [p \in Rebuilders |-> 0]
  /\ apc = [a \in Askers |-> "idle"]
  /\ nodes = [a \in Askers |-> NoNodes]
  /\ reply = [a \in Askers |-> NoReply]
  /\ resp = [a \in Askers |-> NoResp]

\* a first start: line 50 has made the empty vector_store directory
Init ==
  /\ catalog \in Catalogs
  /\ store = EmptyStore
  /\ hashfile = <<>>
  /\ FreshMemory

Serving == pc["main"] = "serving"

(***************************************************************************)
(* build_vector_index (lines 72-118), run by process p.  Its steps are the *)
(* places where it reads or writes what other processes share: the catalog *)
(* file (lines 75, 115), the store (line 112), the hash file (line 116).   *)
(***************************************************************************)
\* an exception leaves build_vector_index: where p goes on.  From line 141
\* the handler of lines 144-146 calls build_vector_index again; from lines
\* 127 and 146 the import fails and the process exits; from line 157 the
\* request ends with status 500.
Raise(p) ==
  /\ IF p = "main"
     THEN /\ pc' = [pc EXCEPT ![p] = IF callsite[p] = 141 THEN "b_read" ELSE "m_exit"]
          /\ callsite' = [callsite EXCEPT ![p] = IF callsite[p] = 141 THEN 146 ELSE 0]
          /\ UNCHANGED result
     ELSE /\ pc' = [pc EXCEPT ![p] = "r_failed"]
          /\ callsite' = [callsite EXCEPT ![p] = 0]
          /\ result' = [result EXCEPT ![p] = 500]
  /\ route_data' = [route_data EXCEPT ![p] = 0]
  /\ new_index' = [new_index EXCEPT ![p] = NoIndex]

\* lines 75-91: read the catalog, make the documents
BuildRead(p) ==
  /\ pc[p] = "b_read"
  /\ IF CatalogLoads(catalog)
     THEN /\ route_data' = [route_data EXCEPT ![p] = catalog]
          /\ new_index' = [new_index EXCEPT ![p] = Index(catalog, <<>>)]
          /\ pc' = [pc EXCEPT ![p] = "b_embed"]
          /\ UNCHANGED <<callsite, result>>
     ELSE Raise(p)
  /\ UNCHANGED <<catalog, store, hashfile, index, retriever, current_hash>>
  /\ UNCHANGED askVars

\* BuildEmbed building in place: the index under construction is the served one
BuildEmbed_InPlace(p) ==
  /\ pc[p] = "b_embed"
  /\ Len(new_index[p].docs) < Len(Documents(route_data[p]))
  /\ new_index' = [new_index EXCEPT ![p] =
       Index(route_data[p],
             Append(new_index[p].docs,
                    Documents(route_data[p])[Len(new_index[p].docs) + 1]))]
  /\ index' = new_index'[p]
  /\ retriever' = AsRetriever(new_index'[p])
  /\ UNCHANGED <<catalog, store, hashfile, pc, callsite,
                 route_data, current_hash, result>>
  /\ UNCHANGED askVars

\* lines 93-109: from_documents embeds the documents one after the other
BuildEmbed(p) ==
  /\ pc[p] = "b_embed"
  /\ Len(new_index[p].docs) < Len(Documents(route_data[p]))
  /\ new_index' = [new_index EXCEPT ![p] =
       Index(route_data[p],
             Append(new_index[p].docs,
                    Documents(route_data[p])[Len(new_index[p].docs) + 1]))]
  /\ UNCHANGED <<catalog, store, hashfile, index, retriever, pc, callsite,
                 route_data, current_hash, result>>
  /\ UNCHANGED askVars

\* BuildEmbedFails with the globals cleared by the failing build
BuildEmbedFails_ClearsServed(p) ==
  /\ pc[p] = "b_embed"
  /\ Raise(p)
  /\ index' = NoIndex
  /\ retriever' = AsRetriever(NoIndex)
  /\ UNCHANGED <<catalog, store, hashfile, current_hash>>
  /\ UNCHANGED askVars

\* lines 93-109: the embedding model fails
BuildEmbedFails(p) ==
  /\ pc[p] = "b_embed"
  /\ Raise(p)
  /\ UNCHANGED <<catalog, store, hashfile, index, retriever, current_hash>>
  /\ UNCHANGED askVars

\* line 112: persist the finished index
BuildPersist(p) ==
  /\ pc[p] = "b_embed"
  /\ Len(new_index[p].docs) = Len(Documents(route_data[p]))
  /\ store' = Persisted(new_index[p])
  /\ pc' = [pc EXCEPT ![p] = "b_hash"]
  /\ UNCHANGED <<catalog, hashfile, index, retriever, callsite,
                 route_data, new_index, current_hash, result>>
  /\ UNCHANGED askVars

\* line 112: persist fails, having written nothing or a part of the files
BuildPersistFails(p) ==
  /\ pc[p] = "b_embed"
  /\ Len(new_index[p].docs) = Len(Documents(route_data[p]))
  /\ store' \in {store, CorruptStore}
  /\ Raise(p)
  /\ UNCHANGED <<catalog, hashfile, index, retriever, current_hash>>
  /\ UNCHANGED askVars

\* line 115: hash the catalog file as it is now
BuildHash(p) ==
  /\ pc[p] = "b_hash"
  /\ current_hash' = [current_hash EXCEPT ![p] = calculate_file_hash(catalog)]
  /\ pc' = [pc EXCEPT ![p] = "b_save"]
  /\ UNCHANGED <<catalog, store, hashfile, index, retriever, callsite,
                 route_data, new_index, result>>
  /\ UNCHANGED askVars


\* BuildSave with the hash file opened for appending
BuildSave_Appends(p) ==
  /\ pc[p] = "b_save"
  /\ hashfile' = hashfile \o <<current_hash[p]>>
  /\ pc' = [pc EXCEPT ![p] = IF p = "main" THEN "m_index" ELSE "r_index"]
  /\ route_data' = [route_data EXCEPT ![p] = 0]
  /\ UNCHANGED <<catalog, store, index, retriever, callsite,
                 new_index, current_hash, result>>
  /\ UNCHANGED askVars

\* lines 116-118: save the hash, return the index to the caller
BuildSave(p) ==
  /\ pc[p] = "b_save"
  /\ hashfile' = <<current_hash[p]>>
  /\ pc' = [pc EXCEPT ![p] = IF p = "main" THEN "m_index" ELSE "r_index"]
  /\ route_data' = [route_data EXCEPT ![p] = 0]
  /\ UNCHANGED <<catalog, store, index, retriever, callsite,
                 new_index, current_hash, result>>
  /\ UNCHANGED askVars

(***************************************************************************)
(* load_or_build_index (lines 120-146) and the start-up code (149-151).    *)
(* During start-up nothing else writes the store or the hash file, and the *)
(* catalog file is read once (line 136): lines 123-143 are one step.       *)
(***************************************************************************)
\* StartupLoad without the comparison of line 139
StartupLoad_NoCompare ==
  /\ pc["main"] = "m_start"
  /\ IF store.state = "empty"
     THEN /\ pc' = [pc EXCEPT !["main"] = "b_read"]
          /\ callsite' = [callsite EXCEPT !["main"] = 127]
          /\ UNCHANGED <<new_index, current_hash>>
     ELSE IF store.state = "corrupt"
     THEN /\ pc' = [pc EXCEPT !["main"] = "b_read"]
          /\ callsite' = [callsite EXCEPT !["main"] = 146]
          /\ UNCHANGED <<new_index, current_hash>>
     ELSE /\ pc' = [pc EXCEPT !["main"] = "m_index"]
          /\ callsite' = [callsite EXCEPT !["main"] = 143]
          /\ new_index' = [new_index EXCEPT !["main"] = store.index]
          /\ current_hash' = [current_hash EXCEPT !["main"] = calculate_file_hash(catalog)]
  /\ UNCHANGED <<catalog, store, hashfile, index, retriever, route_data, result>>
  /\ UNCHANGED askVars

StartupLoad ==
  /\ pc["main"] = "m_start"
  /\ IF store.state = "empty"                                   \* lines 123-127
     THEN /\ pc' = [pc EXCEPT !["main"] = "b_read"]
          /\ callsite' = [callsite EXCEPT !["main"] = 127]
          /\ UNCHANGED <<new_index, current_hash>>
     ELSE IF store.state = "corrupt"                            \* lines 131, 144-146
     THEN /\ pc' = [pc EXCEPT !["main"] = "b_read"]
          /\ callsite' = [callsite EXCEPT !["main"] = 146]
          /\ UNCHANGED <<new_index, current_hash>>
     ELSE IF <<calculate_file_hash(catalog)>> # hashfile        \* lines 131-141
     THEN /\ pc' = [pc EXCEPT !["main"] = "b_read"]
          /\ callsite' = [callsite EXCEPT !["main"] = 141]
          /\ UNCHANGED <<new_index, current_hash>>
     ELSE /\ pc' = [pc EXCEPT !["main"] = "m_index"]            \* lines 131-143
          /\ callsite' = [callsite EXCEPT !["main"] = 143]
          /\ new_index' = [new_index EXCEPT !["main"] = store.index]
          /\ current_hash' = [current_hash EXCEPT !["main"] = calculate_file_hash(catalog)]
  /\ UNCHANGED <<catalog, store, hashfile, index, retriever, route_data, result>>
  /\ UNCHANGED askVars

\* line 149
MainIndex ==
  /\ pc["main"] = "m_index"
  /\ index' = new_index["main"]
  /\ pc' = [pc EXCEPT !["main"] = "m_retriever"]
  /\ callsite' = [callsite EXCEPT !["main"] = 0]
  /\ new_index' = [new_index EXCEPT !["main"] = NoIndex]
  /\ current_hash' = [current_hash EXCEPT !["main"] = NoHash]
  /\ UNCHANGED <<catalog, store, hashfile, retriever, route_data, result>>
  /\ UNCHANGED askVars

\* line 151
MainRetriever ==
  /\ pc["main"] = "m_retriever"
  /\ retriever' = AsRetriever(index)
  /\ pc' = [pc EXCEPT !["main"] = "serving"]
  /\ UNCHANGED <<catalog, store, hashfile, index, callsite,
                 route_data, new_index, current_hash, result>>
  /\ UNCHANGED askVars

(***************************************************************************)
(* rebuild_index (lines 153-159), a worker thread per request              *)
(***************************************************************************)
\* a POST /rebuild-index arrives: line 157 calls build_vector_index
RebuildStart(p) ==
  /\ Serving
  /\ p \in Rebuilders
  /\ pc[p] = "idle"
  /\ pc' = [pc EXCEPT ![p] = "b_read"]
  /\ callsite' = [callsite EXCEPT ![p] = 157]
  /\ UNCHANGED <<catalog, store, hashfile, index, retriever,
                 route_data, new_index, current_hash, result>>
  /\ UNCHANGED askVars

\* line 157: the assignment to the global index
RebuildIndex(p) ==
  /\ pc[p] = "r_index"
  /\ index' = new_index[p]
  /\ pc' = [pc EXCEPT ![p] = "r_retriever"]
  /\ new_index' = [new_index EXCEPT ![p] = NoIndex]
  /\ current_hash' = [current_hash EXCEPT ![p] = NoHash]
  /\ UNCHANGED <<catalog, store, hashfile, retriever, callsite, route_data, result>>
  /\ UNCHANGED askVars

\* line 158, first half: the worker thread loads the global index, the
\* object as_retriever is then called on; other threads run in between
RebuildReadIndex(p) ==
  /\ pc[p] = "r_retriever"
  /\ new_index' = [new_index EXCEPT ![p] = index]
  /\ pc' = [pc EXCEPT ![p] = "r_store"]
  /\ UNCHANGED <<catalog, store, hashfile, index, retriever, callsite,
                 route_data, current_hash, result>>
  /\ UNCHANGED askVars

\* lines 158-159: the assignment to the global retriever, and the return
RebuildRetriever(p) ==
  /\ pc[p] = "r_store"
  /\ retriever' = AsRetriever(new_index[p])
  /\ result' = [result EXCEPT ![p] = 200]
  /\ pc' = [pc EXCEPT ![p] = "r_done"]
  /\ new_index' = [new_index EXCEPT ![p] = NoIndex]
  /\ UNCHANGED <<catalog, store, hashfile, index, callsite,
                 route_data, current_hash>>
  /\ UNCHANGED askVars

\* the response is sent; the worker is free for the next request
RebuildReturn(p) ==
  /\ pc[p] \in {"r_done", "r_failed"}
  /\ pc' = [pc EXCEPT ![p] = "idle"]
  /\ callsite' = [callsite EXCEPT ![p] = 0]
  /\ result' = [result EXCEPT ![p] = 0]
  /\ UNCHANGED <<catalog, store, hashfile, index, retriever,
                 route_data, new_index, current_hash>>
  /\ UNCHANGED askVars

(***************************************************************************)
(* The environment                                                         *)
(***************************************************************************)
\* routes.json is replaced by another content
CatalogChange ==
  /\ catalog' \in Catalogs \ {catalog}
  /\ UNCHANGED <<store, hashfile, index, retriever, pc, callsite,
                 route_data, new_index, current_hash, result>>
  /\ UNCHANGED askVars

\* the server process is killed, or has exited, and is started again
Restart ==
  /\ pc["main"] # "m_start"
  /\ index' = NoIndex
  /\ retriever' = NoRetriever
  /\ pc' = [p \in Builders |-> IF p = "main" THEN "m_start" ELSE "idle"]
  /\ callsite' = [p \in Builders |-> 0]
  /\ route_data' = [p \in Builders |-> 0]
  /\ new_index' = [p \in Builders |-> NoIndex]
  /\ current_hash' = [p \in Builders |-> NoHash]
  /\ result' = [p \in Rebuilders |-> 0]
  /\ apc' = [a \in Askers |-> "idle"]
  /\ nodes' = [a \in Askers |-> NoNodes]
  /\ reply' = [a \in Askers |-> NoReply]
  /\ resp' = [a \in Askers |-> NoResp]
  /\ UNCHANGED <<catalog, store, hashfile>>

(***************************************************************************)
(* ask_question (lines 161-327)                                            *)
(***************************************************************************)
Min(a, b) == IF a < b THEN a ELSE b

\* retriever.retrieve(query): the similarity_top_k nearest documents of the
\* retriever's index; which ones is the embedding's matter
Retrieve(r) ==
  { [index |-> r.index, hits |-> h] :
      h \in { s \in SUBSET (1..Len(r.index.docs)) :
                Cardinality(s) = Min(r.similarity_top_k, Len(r.index.docs)) } }

\* lines 167-171: retrieve; nothing found ends the request
AskRetrieve(a) ==
  /\ Serving
  /\ apc[a] = "idle"
  /\ \E n \in Retrieve(retriever) :
       /\ nodes' = [nodes EXCEPT ![a] = n]
       /\ IF n.hits = {}
          THEN /\ resp' = [resp EXCEPT ![a] = NoNodesResponse]
               /\ apc' = [apc EXCEPT ![a] = "done"]
          ELSE /\ apc' = [apc EXCEPT ![a] = "call"]
               /\ UNCHANGED resp
  /\ UNCHANGED reply
  /\ UNCHANGED lifeVars

\* what requests.post gives: an exception, a status that is not 200, or a
\* JSON envelope, with or without a text in candidates[0].content.parts[0]
Transport == [kind |-> "transport_error", status |-> 0, envelope |-> "none", text |-> <<>>]
Http(status, envelope, text) ==
  [kind |-> "http", status |-> status, envelope |-> envelope, text |-> text]

Replies(texts) ==
  {Transport, Http(503, "none", <<>>)}
  \cup { Http(200, e, <<>>) : e \in {"no_candidates", "no_content", "no_parts", "no_text"} }
  \cup { Http(200, "text", t) : t \in texts }

\* lines 242-327: the status and body for a backend answer
Respond(r) ==
  IF r.kind # "http" THEN HttpError                \* line 327
  ELSE IF r.status # 200 THEN HttpError            \* line 245
  ELSE IF r.envelope # "text" THEN HttpError       \* lines 255, 260, 265, 270
  ELSE Normalise(r.text)

\* lines 174-327: build the prompt, call the backend, answer
AskComplete(a, replies) ==
  /\ apc[a] = "call"
  /\ \E r \in replies :
       /\ reply' = [reply EXCEPT ![a] = r]
       /\ resp' = [resp EXCEPT ![a] = Respond(r)]
  /\ apc' = [apc EXCEPT ![a] = "done"]
  /\ UNCHANGED nodes
  /\ UNCHANGED lifeVars

\* the response is sent; the next request may come
AskReturn(a) ==
  /\ apc[a] = "done"
  /\ apc' = [apc EXCEPT ![a] = "idle"]
  /\ nodes' = [nodes EXCEPT ![a] = NoNodes]
  /\ reply' = [reply EXCEPT ![a] = NoReply]
  /\ resp' = [resp EXCEPT ![a] = NoResp]
  /\ UNCHANGED lifeVars

(***************************************************************************)
(* Specifications                                                          *)
(***************************************************************************)
\* the replies of the requests that run beside the index lifecycle
LifecycleReplies ==
  { Transport,
    Http(200, "text", Render(PyDict([suggestions |-> PyList(<<SuggestionPool[1]>>),
                                     explanation |-> PyStr(s_Here_you_go)]))) }

Next ==
  \/ StartupLoad
  \/ MainIndex
  \/ MainRetriever
  \/ \E p \in Builders : BuildRead(p)
  \/ \E p \in Builders : BuildEmbed(p)
  \/ \E p \in Builders : BuildEmbedFails(p)
  \/ \E p \in Builders : BuildPersist(p)
  \/ \E p \in Builders : BuildPersistFails(p)
  \/ \E p \in Builders : BuildHash(p)
  \/ \E p \in Builders : BuildSave(p)
  \/ \E p \in Rebuilders : RebuildStart(p)
  \/ \E p \in Rebuilders : RebuildIndex(p)
  \/ \E p \in Rebuilders : RebuildReadIndex(p)
  \/ \E p \in Rebuilders : RebuildRetriever(p)
  \/ \E p \in Rebuilders : RebuildReturn(p)
  \/ CatalogChange
  \/ Restart
  \/ \E a \in Askers : AskRetrieve(a)
  \/ \E a \in Askers : AskComplete(a, LifecycleReplies)
  \/ \E a \in Askers : AskReturn(a)

Spec == Init /\ [][Next]_vars

\* ask_question alone, on a server that serves the index of some catalog
AskInit ==
  /\ catalog \in {c \in Catalogs : CatalogLoads(c)}
  /\ store = Persisted(Index(catalog, Documents(catalog)))
  /\ hashfile = <<calculate_file_hash(catalog)>>
  /\ index = Index(catalog, Documents(catalog))
  /\ retriever = AsRetriever(index)
  /\ pc = [p \in Builders |-> IF p = "main" THEN "serving" ELSE "idle"]
  /\ callsite = [p \in Builders |-> 0]
  /\ route_data = [p \in Builders |-> 0]
  /\ new_index = [p \in Builders |-> NoIndex]
  /\ current_hash = [p \in Builders |-> NoHash]
  /\ result = [p \in Rebuilders |-> 0]
  /\ apc = [a \in Askers |-> "idle"]
  /\ nodes = [a \in Askers |-> NoNodes]
  /\ reply = [a \in Askers |-> NoReply]
  /\ resp = [a \in Askers |-> NoResp]

AskNext ==
  \/ \E a \in Askers : AskRetrieve(a)
  \/ \E a \in Askers : AskComplete(a, Replies(ReplyTexts))
  \/ \E a \in Askers : AskReturn(a)

AskSpec == AskInit /\ [][AskNext]_vars

(***************************************************************************)
(* Properties                                                              *)
(***************************************************************************)
\* the request of asker a got a text from the backend (HTTP 200, a text in
\* candidates[0].content.parts[0]) and has been answered
Answered(a) ==
  /\ apc[a] = "done"
  /\ reply[a].kind = "http"
  /\ reply[a].status = 200
  /\ reply[a].envelope = "text"

\* json.loads of the cleaned text of the reply to asker a
ParsedOf(a) == JsonLoads(Cleanup(reply[a].text))

\* {suggestions: [], explanation: <a note>}
CanonicalEmpty(body) ==
  /\ body.kind = "dict"
  /\ DOMAIN body.v = {"suggestions", "explanation"}
  /\ body.v["suggestions"] = PyList(<<>>)
  /\ body.v["explanation"].kind = "str"

\* the parsed reply is an object whose suggestions are a list of Suggestions
WellTyped(a) ==
  LET parsed == ParsedOf(a)
  IN  /\ parsed.ok
      /\ parsed.val.kind = "dict"
      /\ "suggestions" \in DOMAIN parsed.val.v
      /\ parsed.val.v["suggestions"].kind = "list"
      /\ \A i \in 1..Len(parsed.val.v["suggestions"].v) :
           IsSuggestion(parsed.val.v["suggestions"].v[i])

\* the suggestion list the loop of lines 297-320 iterates over
InputOf(a)  == Get(ParsedOf(a).val, "suggestions", PyList(<<>>)).v
\* the suggestion list of the response
OutputOf(a) == resp[a].body.v["suggestions"].v

\* non-empty service and param, and no id: an unknown service or a miss
Unresolved(s) ==
  /\ Truthy(Get(s, "service", PyNone))
  /\ Truthy(Get(s, "param", PyNone))
  /\ \/ Get(s, "service", PyNone).v \notin KnownServices
     \/ LookupId(Get(s, "service", PyNone).v, Get(s, "param", PyNone).v) = <<>>

\* C1 (as the spec states it): a reply text that still does not parse after
\* the clean-up is answered with status 200 and the canonical empty
\* response {suggestions: [], explanation: <note>}, never with an error.
C1_UnparsableGivesCanonicalEmpty ==
  \A a \in Askers :
    (Answered(a) /\ ~ParsedOf(a).ok) =>
      (resp[a].status = 200 /\ CanonicalEmpty(resp[a].body))

\* C2: when every suggestion of the reply is a Suggestion, the request
\* succeeds, and each suggestion with a non-empty service and param whose
\* service is unknown or whose lookup misses is in the output, at its
\* position, with the path it had in the input.
C2_UnresolvedKeepsPath ==
  \A a \in Askers :
    (Answered(a) /\ WellTyped(a)) =>
      LET in  == InputOf(a)
          out == OutputOf(a)
      IN  /\ resp[a].status = 200
          /\ Len(out) = Len(in)
          /\ \A i \in 1..Len(in) :
               Unresolved(in[i]) => out[i].v["path"] = in[i].v["path"]

\* C2's case: a successful response to a reply with an unknown service and
\* one with a lookup that misses
C2_Witness ==
  \E a \in Askers :
    /\ Answered(a) /\ WellTyped(a) /\ resp[a].status = 200
    /\ \E i, j \in 1..Len(InputOf(a)) :
         /\ Unresolved(InputOf(a)[i])
         /\ InputOf(a)[i].v["service"].v \notin KnownServices
         /\ Unresolved(InputOf(a)[j])
         /\ InputOf(a)[j].v["service"].v \in KnownServices
         /\ OutputOf(a)[i] = InputOf(a)[i]
         /\ OutputOf(a)[j] = InputOf(a)[j]

\* C3: the suggestion list of a successful response has the length of the
\* parsed list, and its i-th element is the i-th parsed suggestion, with
\* the same keys and, but for path, the same values.
C3_ResolverKeepsLengthAndOrder ==
  \A a \in Askers :
    (Answered(a) /\ resp[a].status = 200) =>
      LET in  == InputOf(a)
          out == OutputOf(a)
      IN  /\ Len(out) = Len(in)
          /\ \A i \in 1..Len(in) :
               /\ DOMAIN out[i].v = DOMAIN in[i].v
               /\ \A k \in DOMAIN in[i].v \ {"path"} : out[i].v[k] = in[i].v[k]

\* C3's case: two different suggestions, one resolved and one left as it is
C3_Witness ==
  \E a \in Askers :
    /\ Answered(a) /\ resp[a].status = 200
    /\ Len(InputOf(a)) = 2
    /\ InputOf(a)[1] # InputOf(a)[2]
    /\ \E i, j \in 1..2 :
         /\ OutputOf(a)[i] # InputOf(a)[i]
         /\ OutputOf(a)[j] = InputOf(a)[j]

\* C4 (as the spec states it): when the retriever finds nothing, the
\* response is {suggestions: [], explanation: "No relevant pages..."} and
\* the backend has not been called.
C4_EmptyRetrievalResponse ==
  \A a \in Askers :
    (apc[a] = "done" /\ nodes[a].hits = {}) =>
      /\ resp[a] = HttpOk(PyDict([suggestions |-> PyList(<<>>),
                                  explanation |-> PyStr(s_No_relevant)]))
      /\ reply[a] = NoReply

\* C5 (as the spec states it): when load_or_build_index returns at start-up,
\* or rebuild_index is about to install the index it built, the
\* fingerprint recorded in the hash file is the catalog file's fingerprint.
C5_RecordedFingerprintIsCurrent ==
  \A p \in Builders :
    pc[p] \in {"m_index", "r_index"} => hashfile = <<calculate_file_hash(catalog)>>

\* C6: no step of a rebuild_index request inside build_vector_index, the
\* failing one included, changes the served index or retriever, and a
\* build that fails ends the request with an error status.
C6_FailedRebuildKeepsServed ==
  [][\A p \in Rebuilders :
       (/\ pc[p] \in {"b_read", "b_embed"}
        /\ pc'[p] # pc[p] \/ new_index'[p] # new_index[p]
        /\ pc'["main"] = "serving")
       => /\ index' = index
          /\ retriever' = retriever
          /\ pc'[p] = "r_failed" => result'[p] = 500]_vars

\* C6's case: a rebuild has failed on a server that serves an index
C6_Witness ==
  \E p \in Rebuilders :
    /\ pc[p] = "r_failed"
    /\ result[p] = 500
    /\ Serving
    /\ index = Index(index.src, Documents(index.src))
    /\ Len(index.docs) > 0
    /\ retriever = AsRetriever(index)

\* an index with every document of the catalog content it was built from
Complete(idx) ==
  /\ idx.src \in Catalogs
  /\ CatalogLoads(idx.src)
  /\ idx.docs = Documents(idx.src)

\* C7: the index a query retrieves from is a complete one, whatever the
\* rebuild requests are doing.
C7_RetrievalSeesCompleteIndex ==
  \A a \in Askers : nodes[a] # NoNodes => Complete(nodes[a].index)

\* C7's case: a query has retrieved from the served index while a rebuild
\* has a part of the index of another catalog content
C7_Witness ==
  \E a \in Askers : \E p \in Rebuilders :
    /\ nodes[a] # NoNodes
    /\ nodes[a].index = index
    /\ pc[p] = "b_embed"
    /\ Len(new_index[p].docs) > 0
    /\ Len(new_index[p].docs) < Len(Documents(route_data[p]))
    /\ new_index[p].src # index.src

\* C8 (as the spec states it): at most one execution of build_vector_index
\* is active at a time.
C8_OneBuildAtATime ==
  Cardinality({p \in Builders : pc[p] \in {"b_read", "b_embed", "b_hash", "b_save"}}) <= 1

\* C9 (as the spec states it): the body of every successful response of
\* ask_question has exactly the keys suggestions and explanation.
C9_ExactlyTwoKeys ==
  \A a \in Askers :
    (apc[a] = "done" /\ resp[a].status = 200) =>
      DOMAIN resp[a].body.v = {"suggestions", "explanation"}

\* C10: start-up calls build_vector_index if and only if the store is
\* empty, does not load, or the stored fingerprint is not the catalog's;
\* otherwise load_or_build_index returns the index loaded from the store.
C10_StartupBuildsIffStale ==
  [][(pc["main"] = "m_start" /\ pc'["main"] # "m_start") =>
       /\ (pc'["main"] = "b_read") <=>
            (\/ store.state = "empty"
             \/ store.state = "corrupt"
             \/ hashfile # <<calculate_file_hash(catalog)>>)
       /\ pc'["main"] # "b_read" =>
            (pc'["main"] = "m_index" /\ new_index'["main"] = store.index)]_vars

\* C10's case: start-up has loaded the store's index without a build
C10_Witness ==
  /\ pc["main"] = "m_index"
  /\ callsite["main"] = 143
  /\ new_index["main"] = store.index
  /\ Len(store.index.docs) > 0

\* the backend gave no usable text: a transport failure, a status that is
\* not 200, an envelope without candidates, content, parts or text, or a
\* text of white space only
BackendFailure(r) ==
  \/ r.kind # "http"
  \/ r.status # 200
  \/ r.envelope # "text"
  \/ Strip(r.text) = <<>>

\* C11 (as the spec states it): once retrieval has found matches, the
\* request ends in an error exactly when the backend failed (transport,
\* status, or an envelope without usable text).
C11_OnlyBackendFailuresAreErrors ==
  \A a \in Askers :
    (apc[a] = "done" /\ nodes[a].hits # {}) =>
      (resp[a].status = 500 <=> BackendFailure(reply[a]))

\* "/advisers/101": the path of the adviser with id 101
s_advisers_101 == <<"/","a","d","v","i","s","e","r","s","/","1","0","1">>

\* a known service and a non-empty param whose lookup returns an id
Resolved(s) ==
  /\ Truthy(Get(s, "service", PyNone))
  /\ Truthy(Get(s, "param", PyNone))
  /\ Get(s, "service", PyNone).v \in KnownServices
  /\ LookupId(Get(s, "service", PyNone).v, Get(s, "param", PyNone).v) # <<>>

\* C12: in a successful response, every suggestion with a known service
\* and a non-empty param whose lookup returns n has the path of the input
\* with :id replaced by the decimal string of n; get_adviser_id_by_email
\* with john.doe@example.com in any letter case and the path /advisers/:id
\* gives /advisers/101.
C12_HitSubstitutesId ==
  \A a \in Askers :
    (Answered(a) /\ resp[a].status = 200) =>
      LET in  == InputOf(a)
          out == OutputOf(a)
      IN  \A i \in 1..Len(in) :
            /\ Resolved(in[i]) =>
                 out[i].v["path"].v =
                   Replace(in[i].v["path"].v, s_id,
                           DecStr(LookupId(in[i].v["service"].v, in[i].v["param"].v)[1]))
            /\ (/\ IsSuggestion(in[i])
                /\ Get(in[i], "service", PyNone) = PyStr(s_get_adviser_id_by_email)
                /\ Get(in[i], "param", PyNone).kind = "str"
                /\ Lower(Get(in[i], "param", PyNone).v) = s_john_doe_example_com
                /\ in[i].v["path"] = PyStr(s_advisers_id))
               => out[i].v["path"] = PyStr(s_advisers_101)

\* C12's case: an email given in another letter case is resolved, next to a
\* path with two placeholders
C12_Witness ==
  \E a \in Askers :
    /\ Answered(a) /\ resp[a].status = 200
    /\ \E i, j \in 1..Len(InputOf(a)) :
         /\ Get(InputOf(a)[i], "param", PyNone) = PyStr(s_John_Doe_Example_COM)
         /\ Get(OutputOf(a)[i], "path", PyNone) = PyStr(s_advisers_101)
         /\ Resolved(InputOf(a)[j])
         /\ Get(InputOf(a)[j], "path", PyNone) = PyStr(s_clients_id_notes_id)
         /\ Get(OutputOf(a)[j], "path", PyNone) # PyStr(s_clients_id_notes_id)

(***************************************************************************)
(* Two rebuild_index requests in succession on a serving server, with the  *)
(* catalog file left alone: r1, then r2 once r1 has ended.  The worker of  *)
(* r1 keeps its status for the comparison.                                 *)
(***************************************************************************)
RebuildInit ==
  /\ catalog \in Catalogs
  /\ \E c \in {d \in Catalogs : CatalogLoads(d)} :
       /\ store = Persisted(Index(c, Documents(c)))
       /\ hashfile = <<calculate_file_hash(c)>>
       /\ index = Index(c, Documents(c))
  /\ retriever = AsRetriever(index)
  /\ pc = [p \in Builders |-> IF p = "main" THEN "serving" ELSE "idle"]
  /\ callsite = [p \in Builders |-> 0]
  /\ route_data = [p \in Builders |-> 0]
  /\ new_index = [p \in Builders |-> NoIndex]
  /\ current_hash = [p \in Builders |-> NoHash]
  /\ result = [p \in Rebuilders |-> 0]
  /\ apc = [a \in Askers |-> "idle"]
  /\ nodes = [a \in Askers |-> NoNodes]
  /\ reply = [a \in Askers |-> NoReply]
  /\ resp = [a \in Askers |-> NoResp]

\* the second request is sent when the first has ended
SuccessiveStart(p) ==
  /\ IF p = "r1" THEN pc["r2"] = "idle" ELSE pc["r1"] \in {"r_done", "r_failed"}
  /\ RebuildStart(p)

RebuildNext ==
  \/ \E p \in Rebuilders : SuccessiveStart(p)
  \/ \E p \in Rebuilders : BuildRead(p)
  \/ \E p \in Rebuilders : BuildEmbed(p)
  \/ \E p \in Rebuilders : BuildEmbedFails(p)
  \/ \E p \in Rebuilders : BuildPersist(p)
  \/ \E p \in Rebuilders : BuildPersistFails(p)
  \/ \E p \in Rebuilders : BuildHash(p)
  \/ \E p \in Rebuilders : BuildSave(p)
  \/ \E p \in Rebuilders : RebuildIndex(p)
  \/ \E p \in Rebuilders : RebuildReadIndex(p)
  \/ \E p \in Rebuilders : RebuildRetriever(p)

RebuildSpec == RebuildInit /\ [][RebuildNext]_vars

\* C13: with the catalog unchanged, after one successful rebuild_index and
\* after two in succession the hash file holds the catalog's fingerprint,
\* the store and the served index hold the catalog's documents, and the
\* status is the same (200); on a catalog that does not load both end
\* with the same error status.
C13_RebuildIdempotent ==
  /\ (pc["r1"] = "r_done" /\ pc["r2"] \in {"idle", "r_done"}) =>
       /\ hashfile = <<calculate_file_hash(catalog)>>
       /\ index = Index(catalog, Documents(catalog))
       /\ store = Persisted(index)
       /\ retriever = AsRetriever(index)
       /\ result["r1"] = 200
       /\ pc["r2"] = "r_done" => result["r2"] = result["r1"]
  /\ (~CatalogLoads(catalog) /\ pc["r1"] = "r_failed" /\ pc["r2"] \in {"r_done", "r_failed"}) =>
       (pc["r2"] = "r_failed" /\ result["r2"] = result["r1"])

\* C13's case: two successful rebuilds in succession of a catalog with
\* routes, on a server that served another catalog's index before
C13_Witness ==
  /\ pc["r1"] = "r_done"
  /\ pc["r2"] = "r_done"
  /\ result["r2"] = 200
  /\ Len(index.docs) > 0

\* C14 (as the spec states it): whenever a start-up finds a store that
\* loads and a saved fingerprint, that fingerprint is the fingerprint of
\* the catalog content the persisted index was built from.
C14_StoreAndFingerprintAgree ==
  (pc["main"] = "m_start" /\ store.state = "ok" /\ hashfile # <<>>) =>
    hashfile = <<calculate_file_hash(store.index.src)>>

\* n closing braces
Braces(n) == [i \in 1..n |-> "}"]

\* the numbers of closing braces whose appending makes the cleaned text
\* of a reply the JSON text of an object
MissingBraces(text) ==
  {n \in 1..MaxCut : /\ JsonLoads(Cleanup(text) \o Braces(n)).ok
                     /\ JsonLoads(Cleanup(text) \o Braces(n)).val.kind = "dict"}

\* C15 (as the spec states it): a reply text that is a JSON object with N
\* closing braces missing is answered as the text with N braces appended
\* would be.
C15_MissingBracesAreAppended ==
  \A a \in Askers :
    (Answered(a) /\ ~ParsedOf(a).ok) =>
      \A n \in MissingBraces(reply[a].text) :
        resp[a] = Normalise(Cleanup(reply[a].text) \o Braces(n))

\* the metadata of document d has the fields of catalog entry r, with
\* their values, and no other field
SameFields(d, r) ==
  /\ DOMAIN d.metadata = DOMAIN r
  /\ \A k \in DOMAIN r :
       d.metadata[k] = IF k = "service" THEN <<r[k]>> ELSE r[k]

\* C16 (as the spec states it): the index a build has finished holds one
\* document per catalog entry, in catalog order, and each document's
\* metadata has exactly the fields of its entry.
C16_MetadataHasExactlyEntryFields ==
  \A p \in Builders :
    pc[p] = "b_hash" =>
      /\ Len(new_index[p].docs) = Len(CatalogFiles[new_index[p].src].routes)
      /\ \A i \in 1..Len(new_index[p].docs) :
           SameFields(new_index[p].docs[i], CatalogFiles[new_index[p].src].routes[i])

\* the code-fence styles with a leading and a trailing marker
Fenced == {"json_fence", "bare_fence"}

\* the text between the markers of a reply of Wrap(style, _)
Unwrap(style, text) ==
  IF style = "json_fence"
  THEN DropLast(DropFirst(text, Len(FenceJson) + 1), Len(Fence) + 2)
  ELSE DropLast(DropFirst(text, Len(Fence) + 2), Len(Fence) + 1)

\* C17: a reply that is valid JSON gets the same response when it is
\* wrapped in a leading ```json or ``` and a trailing ```, with whitespace
\* around the markers; and a reply that came wrapped is answered as the
\* text between its markers.
C17_FenceDoesNotChangeResponse ==
  \A a \in Askers :
    Answered(a) =>
      LET text == reply[a].text
          valid == JsonLoads(Strip(text)).ok
      IN  \A style \in Fenced :
            /\ valid => Normalise(Wrap(style, text)) = resp[a]
            /\ (/\ text = Wrap(style, Unwrap(style, text))
                /\ JsonLoads(Unwrap(style, text)).ok)
               => resp[a] = Normalise(Unwrap(style, text))

\* C17's case: a reply in a ```json fence whose suggestion was resolved
C17_Witness ==
  \E a \in Askers :
    /\ Answered(a)
    /\ reply[a].text = Wrap("json_fence", Unwrap("json_fence", reply[a].text))
    /\ JsonLoads(Unwrap("json_fence", reply[a].text)).ok
    /\ resp[a].status = 200
    /\ Len(OutputOf(a)) > 0
    /\ OutputOf(a)[1] # InputOf(a)[1]

\* an object without a service, without a param, or with either one empty
\* or null
PassesThrough(s) ==
  /\ s.kind = "dict"
  /\ ~(Truthy(Get(s, "service", PyNone)) /\ Truthy(Get(s, "param", PyNone)))

\* C18: a suggestion without a non-empty service and a non-empty param is
\* in the response with every field as it was parsed, and a reply made of
\* such suggestions only is answered with success: the lookups, which
\* could change the path or raise, are not reached.
C18_WithoutServiceOrParamUntouched ==
  \A a \in Askers :
    Answered(a) =>
      LET parsed == ParsedOf(a)
          in     == InputOf(a)
      IN  /\ resp[a].status = 200 =>
               \A i \in 1..Len(in) :
                 PassesThrough(in[i]) => OutputOf(a)[i] = in[i]
          /\ (/\ parsed.ok /\ parsed.val.kind = "dict"
              /\ Get(parsed.val, "suggestions", PyList(<<>>)).kind = "list"
              /\ \A i \in 1..Len(in) : PassesThrough(in[i]))
             => resp[a].status = 200

\* C18's case: a suggestion without the service key and one with an empty
\* param, both returned as they were
C18_Witness ==
  \E a \in Askers :
    /\ Answered(a) /\ resp[a].status = 200
    /\ \E i, j \in 1..Len(InputOf(a)) :
         /\ InputOf(a)[i].kind = "dict"
         /\ "service" \notin DOMAIN InputOf(a)[i].v
         /\ Get(InputOf(a)[j], "service", PyNone).kind = "str"
         /\ Get(InputOf(a)[j], "service", PyNone).v \in KnownServices
         /\ Get(InputOf(a)[j], "param", PyNone) = PyStr(s_empty)
         /\ OutputOf(a)[i] = InputOf(a)[i]
         /\ OutputOf(a)[j] = InputOf(a)[j]

\* the server serves and no rebuild_index request is under way
AllFinished ==
  /\ Serving
  /\ \A p \in Rebuilders : pc[p] \in {"idle", "r_done", "r_failed"}

\* C19 (as the spec states it): once every rebuild_index request has
\* finished, the global retriever is the retriever of the global index,
\* and that index is the one the store holds.
C19_RetrieverIndexStoreAgree ==
  AllFinished =>
    /\ retriever = AsRetriever(index)
    /\ store.state = "ok" => store.index = index

====
